---------------------------- MODULE Spec2Model ----------------------------
(***************************************************************************)
(* Model of async-openai's error module (src/async-openai/src/error.rs):   *)
(* the OpenAIError variants and their rendering, ApiError's Display, the   *)
(* flexible error shapes ApiErrorFlex / ErrorCode / WrappedError as serde   *)
(* deserializes them from a JSON body, and map_deserialization_error.      *)
(*                                                                         *)
(* Bytes are integers 0..255, text is a sequence of Unicode code points.   *)
(* A response body is a sequence of bytes; the two serde_json::from_slice  *)
(* probes are modelled by a JSON reader over those bytes followed by the   *)
(* derived Deserialize of the target type.                                 *)
(***************************************************************************)
EXTENDS Integers, Sequences, FiniteSets, TLC

VARIABLES
    pc,        \* "idle" | "returned" | "displayed"
    op,        \* the operation that produced `result`
    bytes,     \* the `bytes` argument of map_deserialization_error
    err,       \* the `err` argument of map_deserialization_error
    doc,       \* the document the body was encoded from (NoDoc for a raw body)
    result,    \* the OpenAIError value held by the caller
    log,       \* the records emitted through tracing::error!
    rendered   \* the text produced by formatting `result` with Display

vars == <<pc, op, bytes, err, doc, result, log, rendered>>

---------------------------------------------------------------------------
(* Bounds of the model.                                                    *)

\* Longest raw (not encoded from a document) body, in bytes.
MaxRawLen == 3

\* Number of distinct decode errors the caller may pass in.
MaxErrIds == 2

\* Largest value of Rust's u16 (ErrorCode::Int(u16)).
U16Max == 65535

---------------------------------------------------------------------------
(* Characters and literals.                                                *)

Ch == [ quote |-> 34, backslash |-> 92, slash |-> 47, lbrace |-> 123,
        rbrace |-> 125, lbracket |-> 91, rbracket |-> 93, colon |-> 58,
        comma |-> 44, minus |-> 45, plus |-> 43, dot |-> 46, space |-> 32,
        tab |-> 9, lf |-> 10, cr |-> 13, zero |-> 48, nine |-> 57,
        lparen |-> 40, rparen |-> 41,
        n |-> 110, t |-> 116, f |-> 102, e |-> 101, bigE |-> 69,
        b |-> 98, r |-> 114, u |-> 117, bs |-> 8, ff |-> 12,
        replacement |-> 65533 ]

\* Field names of the derived Deserialize impls.
KeyError   == <<101, 114, 114, 111, 114>>            \* "error"
KeyMessage == <<109, 101, 115, 115, 97, 103, 101>>   \* "message"
KeyType    == <<116, 121, 112, 101>>                 \* "type"
KeyParam   == <<112, 97, 114, 97, 109>>              \* "param"
KeyCode    == <<99, 111, 100, 101>>                  \* "code"

\* s[i], or 0 past the end (safe_get of core::str::lossy).
At(s, i) == IF i >= 1 /\ i <= Len(s) THEN s[i] ELSE 0

IsCont(c) == c >= 128 /\ c <= 191

---------------------------------------------------------------------------
(* UTF-8: one step of core::str::Utf8Chunks, as used by                    *)
(* String::from_utf8_lossy and by str::from_utf8.                          *)

\* The scalar starting at b[i]: [n: bytes taken, ok: well formed, cp: code point].
\* An ill-formed sequence takes the lead byte and the continuation bytes that
\* were accepted before the offending one.
Utf8Step(b, i) ==
    LET b0 == At(b, i)
        b1 == At(b, i + 1)
        b2 == At(b, i + 2)
        b3 == At(b, i + 3)
        bad(k) == [n |-> k, ok |-> FALSE, cp |-> Ch.replacement]
    IN  IF b0 < 128 THEN [n |-> 1, ok |-> TRUE, cp |-> b0]
        ELSE IF b0 >= 194 /\ b0 <= 223 THEN
            IF IsCont(b1)
            THEN [n |-> 2, ok |-> TRUE, cp |-> (b0 - 192) * 64 + (b1 - 128)]
            ELSE bad(1)
        ELSE IF b0 >= 224 /\ b0 <= 239 THEN
            IF ~ (\/ b0 = 224 /\ b1 >= 160 /\ b1 <= 191
                  \/ b0 >= 225 /\ b0 <= 236 /\ IsCont(b1)
                  \/ b0 = 237 /\ b1 >= 128 /\ b1 <= 159
                  \/ b0 >= 238 /\ IsCont(b1))
            THEN bad(1)
            ELSE IF ~ IsCont(b2) THEN bad(2)
            ELSE [n |-> 3, ok |-> TRUE,
                  cp |-> (b0 - 224) * 4096 + (b1 - 128) * 64 + (b2 - 128)]
        ELSE IF b0 >= 240 /\ b0 <= 244 THEN
            IF ~ (\/ b0 = 240 /\ b1 >= 144 /\ b1 <= 191
                  \/ b0 >= 241 /\ b0 <= 243 /\ IsCont(b1)
                  \/ b0 = 244 /\ b1 >= 128 /\ b1 <= 143)
            THEN bad(1)
            ELSE IF ~ IsCont(b2) THEN bad(2)
            ELSE IF ~ IsCont(b3) THEN bad(3)
            ELSE [n |-> 4, ok |-> TRUE,
                  cp |-> (b0 - 240) * 262144 + (b1 - 128) * 4096
                         + (b2 - 128) * 64 + (b3 - 128)]
        ELSE bad(1)

RECURSIVE LossyFrom(_, _)
LossyFrom(b, i) ==
    IF i > Len(b) THEN <<>>
    ELSE LET Got(st) == <<st.cp>> \o LossyFrom(b, i + st.n) IN Got(Utf8Step(b, i))

\* String::from_utf8_lossy(bytes).to_string()
FromUtf8Lossy(b) == LossyFrom(b, 1)

\* str::from_utf8(b[i..]).is_ok()
RECURSIVE Utf8ValidFrom(_, _)
Utf8ValidFrom(b, i) ==
    IF i > Len(b) THEN TRUE
    ELSE LET Got(st) == st.ok /\ Utf8ValidFrom(b, i + st.n) IN Got(Utf8Step(b, i))

---------------------------------------------------------------------------
(* JSON values as serde_json reads them.  Every value is a record of the   *)
(* same shape: t is the kind, n the integer, s the text of a string, u     *)
(* whether that text was well-formed UTF-8 in the body, kids the elements  *)
(* (k = <<>>) or the members (k the key, ku whether the key was            *)
(* well-formed UTF-8) in the order of the body, duplicates kept.           *)

JNull      == [t |-> "null",  n |-> 0, s |-> <<>>, u |-> TRUE, kids |-> <<>>]
JBool(x)   == [t |-> "bool",  n |-> IF x THEN 1 ELSE 0, s |-> <<>>, u |-> TRUE, kids |-> <<>>]
JInt(x)    == [t |-> "int",   n |-> x, s |-> <<>>, u |-> TRUE, kids |-> <<>>]
JFloat     == [t |-> "float", n |-> 0, s |-> <<>>, u |-> TRUE, kids |-> <<>>]
JStrU(x, valid) == [t |-> "str", n |-> 0, s |-> x, u |-> valid, kids |-> <<>>]
JStr(x)    == JStrU(x, TRUE)
JArr(ks)   == [t |-> "arr",   n |-> 0, s |-> <<>>, u |-> TRUE, kids |-> ks]
JObj(ks)   == [t |-> "obj",   n |-> 0, s |-> <<>>, u |-> TRUE, kids |-> ks]
Elem(v)    == [k |-> <<>>, ku |-> TRUE, v |-> v]
Member(key, v) == [k |-> key, ku |-> TRUE, v |-> v]

\* Result of a reader step: the value read and the position after it.
ReadOk(v, i) == [ok |-> TRUE, v |-> v, i |-> i]
ReadErr      == [ok |-> FALSE, v |-> JNull, i |-> 0]

IsWs(c)    == c \in {Ch.space, Ch.tab, Ch.lf, Ch.cr}
IsDigit(c) == c >= Ch.zero /\ c <= Ch.nine

RECURSIVE SkipWs(_, _)
SkipWs(b, i) == IF i <= Len(b) /\ IsWs(b[i]) THEN SkipWs(b, i + 1) ELSE i

\* The fixed word w is at b[i..].
HasWord(b, i, w) == i + Len(w) - 1 <= Len(b) /\ SubSeq(b, i, i + Len(w) - 1) = w

\* The character a one-letter escape stands for; 0 when it is no such escape.
Unescape(c) ==
    CASE c = Ch.quote     -> Ch.quote
      [] c = Ch.backslash -> Ch.backslash
      [] c = Ch.slash     -> Ch.slash
      [] c = Ch.b         -> Ch.bs
      [] c = Ch.f         -> Ch.ff
      [] c = Ch.n         -> Ch.lf
      [] c = Ch.r         -> Ch.cr
      [] c = Ch.t         -> Ch.tab
      [] OTHER            -> 0

\* A string body from b[i] (after the opening quote) to its closing quote.
\* Control characters and unknown escapes end the read with an error; \u
\* escapes are outside the modelled bodies and are rejected.
RECURSIVE ReadStrBody(_, _, _, _)
ReadStrBody(b, i, acc, valid) ==
    IF i > Len(b) THEN ReadErr
    ELSE IF b[i] = Ch.quote THEN ReadOk(JStrU(acc, valid), i + 1)
    ELSE IF b[i] = Ch.backslash THEN
        IF Unescape(At(b, i + 1)) = 0 THEN ReadErr
        ELSE ReadStrBody(b, i + 2, Append(acc, Unescape(b[i + 1])), valid)
    ELSE IF b[i] < 32 THEN ReadErr
    ELSE LET Got(st) == ReadStrBody(b, i + st.n, Append(acc, st.cp), valid /\ st.ok)
         IN  Got(Utf8Step(b, i))

RECURSIVE ReadDigits(_, _, _)
\* The run of digits at b[i..]: [i: position after it, n: its value].
ReadDigits(b, i, acc) ==
    IF i <= Len(b) /\ IsDigit(b[i])
    THEN ReadDigits(b, i + 1, acc * 10 + (b[i] - Ch.zero))
    ELSE [i |-> i, n |-> acc]

\* A number at b[i]: an optional minus, an integer part without leading
\* zeros, an optional fraction and exponent.  Without fraction or exponent
\* it is an integer (serde_json reads -0 as the float -0.0).
ReadNumber(b, i) ==
    LET neg == At(b, i) = Ch.minus
        j   == IF neg THEN i + 1 ELSE i
        \* after the exponent: hasE, and the digits exp read from position k on
        AfterExp(int, hasDot, fracEnd, hasE, k, exp) ==
            IF hasE /\ exp.i = k THEN ReadErr
            ELSE IF hasDot \/ hasE \/ (neg /\ int.n = 0)
                 THEN ReadOk(JFloat, IF hasE THEN exp.i ELSE fracEnd)
            ELSE ReadOk(JInt(IF neg THEN 0 - int.n ELSE int.n), fracEnd)
        \* after the fraction, which ended at fracEnd
        AfterFrac(int, hasDot, fracEnd) ==
            IF hasDot /\ fracEnd = int.i + 1 THEN ReadErr
            ELSE LET hasE == At(b, fracEnd) \in {Ch.e, Ch.bigE}
                     k    == IF At(b, fracEnd + 1) \in {Ch.plus, Ch.minus}
                             THEN fracEnd + 2 ELSE fracEnd + 1
                 IN  AfterExp(int, hasDot, fracEnd, hasE, k, ReadDigits(b, k, 0))
        \* after the integer part
        AfterInt(int) ==
            IF At(b, int.i) = Ch.dot
            THEN AfterFrac(int, TRUE, ReadDigits(b, int.i + 1, 0).i)
            ELSE AfterFrac(int, FALSE, int.i)
    IN  IF ~ IsDigit(At(b, j)) THEN ReadErr
        ELSE IF At(b, j) = Ch.zero THEN
            IF IsDigit(At(b, j + 1)) THEN ReadErr
            ELSE AfterInt([i |-> j + 1, n |-> 0])
        ELSE AfterInt(ReadDigits(b, j, 0))

RECURSIVE ReadValue(_, _), ReadValueAt(_, _), ReadArray(_, _), ReadObject(_, _),
          ReadElems(_, _, _), ReadMembers(_, _, _)

\* The JSON value starting at the first non-blank of b[i..].
ReadValue(b, i0) == ReadValueAt(b, SkipWs(b, i0))

\* The JSON value starting at b[i], which is not a blank.
ReadValueAt(b, i) ==
    LET c == At(b, i)
    IN  IF i > Len(b) THEN ReadErr
        ELSE IF c = Ch.n THEN
            IF HasWord(b, i + 1, <<117, 108, 108>>) THEN ReadOk(JNull, i + 4) ELSE ReadErr
        ELSE IF c = Ch.t THEN
            IF HasWord(b, i + 1, <<114, 117, 101>>) THEN ReadOk(JBool(TRUE), i + 4) ELSE ReadErr
        ELSE IF c = Ch.f THEN
            IF HasWord(b, i + 1, <<97, 108, 115, 101>>) THEN ReadOk(JBool(FALSE), i + 5) ELSE ReadErr
        ELSE IF c = Ch.quote THEN ReadStrBody(b, i + 1, <<>>, TRUE)
        ELSE IF c = Ch.minus \/ IsDigit(c) THEN ReadNumber(b, i)
        ELSE IF c = Ch.lbracket THEN ReadArray(b, SkipWs(b, i + 1))
        ELSE IF c = Ch.lbrace THEN ReadObject(b, SkipWs(b, i + 1))
        ELSE ReadErr

\* An array whose first non-blank after the bracket is b[j].
ReadArray(b, j) ==
    IF At(b, j) = Ch.rbracket THEN ReadOk(JArr(<<>>), j + 1) ELSE ReadElems(b, j, <<>>)

\* An object whose first non-blank after the brace is b[j].
ReadObject(b, j) ==
    IF At(b, j) = Ch.rbrace THEN ReadOk(JObj(<<>>), j + 1) ELSE ReadMembers(b, j, <<>>)

\* The elements of an array from b[i] on, up to its closing bracket.
ReadElems(b, i, acc) ==
    LET \* after the element e, b[j] the first non-blank behind it
        After(e, j) ==
            IF At(b, j) = Ch.comma THEN ReadElems(b, j + 1, Append(acc, Elem(e.v)))
            ELSE IF At(b, j) = Ch.rbracket THEN ReadOk(JArr(Append(acc, Elem(e.v))), j + 1)
            ELSE ReadErr
        Got(e) == IF e.ok THEN After(e, SkipWs(b, e.i)) ELSE ReadErr
    IN  Got(ReadValue(b, i))

\* The members of an object from b[i] on, up to its closing brace.
ReadMembers(b, i, acc) ==
    LET \* after the member m, b[j] the first non-blank behind it
        After(m, j) ==
            IF At(b, j) = Ch.comma THEN ReadMembers(b, j + 1, Append(acc, m))
            ELSE IF At(b, j) = Ch.rbrace THEN ReadOk(JObj(Append(acc, m)), j + 1)
            ELSE ReadErr
        GotValue(key, val) ==
            IF val.ok
            THEN After([k |-> key.v.s, ku |-> key.v.u, v |-> val.v], SkipWs(b, val.i))
            ELSE ReadErr
        \* after the key, b[col] the first non-blank behind it
        GotKey(key, col) ==
            IF key.ok /\ At(b, col) = Ch.colon
            THEN GotValue(key, ReadValue(b, col + 1))
            ELSE ReadErr
        Key(key) == IF key.ok THEN GotKey(key, SkipWs(b, key.i)) ELSE ReadErr
        At1(kq) == IF At(b, kq) = Ch.quote
                   THEN Key(ReadStrBody(b, kq + 1, <<>>, TRUE)) ELSE ReadErr
    IN  At1(SkipWs(b, i))

\* The whole body as one JSON value, nothing but blanks after it.
ReadDocument(b) ==
    LET Got(r) == IF r.ok /\ SkipWs(b, r.i) = Len(b) + 1 THEN r ELSE ReadErr
    IN  Got(ReadValue(b, 1))

---------------------------------------------------------------------------
(* The error types.                                                        *)

\* Option<String>
NoneStr    == [some |-> FALSE, val |-> <<>>]
SomeStr(x) == [some |-> TRUE, val |-> x]

\* enum ErrorCode { Str(String), Int(u16) }
ErrorCodeStr(x) == [tag |-> "Str", s |-> x, i |-> 0]
ErrorCodeInt(x) == [tag |-> "Int", s |-> <<>>, i |-> x]

\* Option<ErrorCode>
NoneCode    == [some |-> FALSE, val |-> ErrorCodeInt(0)]
SomeCode(c) == [some |-> TRUE, val |-> c]

\* struct ApiErrorFlex and struct ApiError have the same field names; the
\* code of the first is an Option<ErrorCode>, of the second an Option<String>.
ApiErrorOf(m, t, p, c) == [message |-> m, type |-> t, param |-> p, code |-> c]

NoApiError == ApiErrorOf(<<>>, NoneStr, NoneStr, NoneStr)

\* A serde_json::Error: where it was produced and which one it is.
JsonError(origin, id) == [origin |-> origin, id |-> id]
NoJsonError == JsonError("none", 0)

\* Display of a serde_json::Error (text chosen by the library; distinct
\* errors have distinct texts): a letter for the origin and a digit.
ErrorText(e) ==
    << CASE e.origin = "caller"  -> 69     \* E
         [] e.origin = "wrapped" -> 87     \* W
         [] e.origin = "flat"    -> 70     \* F
         [] OTHER                -> 63,    \* ?
       Ch.zero + e.id >>

\* enum OpenAIError: the variant, and its payload in the field the variant
\* uses (api: ApiError; error and text: JSONDeserialize; text alone: the
\* message of the reqwest::Error, or the String of the other variants).
OpenAIErrorOf(variant, api, e, text) ==
    [variant |-> variant, api |-> api, error |-> e, text |-> text]

Reqwest(msg)            == OpenAIErrorOf("Reqwest", NoApiError, NoJsonError, msg)
ApiErrorVariant(a)      == OpenAIErrorOf("ApiError", a, NoJsonError, <<>>)
JSONDeserialize(e, txt) == OpenAIErrorOf("JSONDeserialize", NoApiError, e, txt)
DetailVariant(v, d)     == OpenAIErrorOf(v, NoApiError, NoJsonError, d)

DetailVariants == {"FileSaveError", "FileReadError", "StreamError", "InvalidArgument"}

NoOpenAIError == OpenAIErrorOf("none", NoApiError, NoJsonError, <<>>)

---------------------------------------------------------------------------
(* Code normalization.                                                     *)

\* Mutant of U16ToString: the digits in the order they are produced, least
\* significant first.
RECURSIVE U16ToStringReversed(_)
U16ToStringReversed(i) ==
    IF i < 10 THEN <<Ch.zero + i>>
    ELSE <<Ch.zero + (i % 10)>> \o U16ToStringReversed(i \div 10)

\* u16::to_string: base-10 digits, most significant first, no padding.
RECURSIVE U16ToString(_)
U16ToString(i) ==
    IF i < 10 THEN <<Ch.zero + i>>
    ELSE Append(U16ToString(i \div 10), Ch.zero + (i % 10))

\* impl Into<String> for ErrorCode
ErrorCodeInto(code) ==
    IF code.tag = "Str" THEN code.s ELSE U16ToString(code.i)

\* impl From<ApiErrorFlex> for ApiError
FromApiErrorFlex(flex) ==
    ApiErrorOf(flex.message, flex.type, flex.param,
               IF flex.code.some THEN SomeStr(ErrorCodeInto(flex.code.val))
               ELSE NoneStr)

---------------------------------------------------------------------------
(* Display.                                                                *)

RECURSIVE Join(_, _)
\* [String]::join(sep)
Join(parts, sep) ==
    IF Len(parts) = 0 THEN <<>>
    ELSE IF Len(parts) = 1 THEN parts[1]
    ELSE parts[1] \o sep \o Join(Tail(parts), sep)

\* Mutant of DisplayApiError: an absent param or code still contributes
\* its parentheses.
DisplayApiErrorEmptyParens(a) ==
    Join((IF a.type.some THEN <<a.type.val \o <<Ch.colon>>>> ELSE <<>>)
         \o << a.message,
                <<40, 112, 97, 114, 97, 109, 58, 32>> \o a.param.val \o <<Ch.rparen>>,
                <<40, 99, 111, 100, 101, 58, 32>> \o a.code.val \o <<Ch.rparen>> >>,
         <<Ch.space>>)

\* impl Display for ApiError
DisplayApiError(a) ==
    LET p1 == IF a.type.some THEN <<a.type.val \o <<Ch.colon>>>> ELSE <<>>
        p2 == Append(p1, a.message)
        p3 == IF a.param.some
              THEN Append(p2, <<40, 112, 97, 114, 97, 109, 58, 32>>      \* "(param: "
                              \o a.param.val \o <<Ch.rparen>>)
              ELSE p2
        p4 == IF a.code.some
              THEN Append(p3, <<40, 99, 111, 100, 101, 58, 32>>          \* "(code: "
                              \o a.code.val \o <<Ch.rparen>>)
              ELSE p3
    IN  Join(p4, <<Ch.space>>)

\* Mutant of DisplayOpenAIError: every variant formatted as its payload
\* alone, the prefix of the format string left out.
DisplayOpenAIErrorBare(e) ==
    IF e.variant = "ApiError" THEN e.api.message
    ELSE IF e.variant = "JSONDeserialize" THEN ErrorText(e.error) \o e.text
    ELSE e.text

\* The #[error("...")] format of each OpenAIError variant.
DisplayOpenAIError(e) ==
    CASE e.variant = "Reqwest" ->
            \* "http error: {0}"
            <<104, 116, 116, 112, 32, 101, 114, 114, 111, 114, 58, 32>> \o e.text
      [] e.variant = "ApiError" ->
            \* "{0}"
            DisplayApiError(e.api)
      [] e.variant = "JSONDeserialize" ->
            \* "Failed to deserialize API response: {0}\nResponse body: {1}"
            <<70, 97, 105, 108, 101, 100, 32, 116, 111, 32, 100, 101, 115, 101,
              114, 105, 97, 108, 105, 122, 101, 32, 65, 80, 73, 32, 114, 101,
              115, 112, 111, 110, 115, 101, 58, 32>>
            \o ErrorText(e.error)
            \o <<10, 82, 101, 115, 112, 111, 110, 115, 101, 32, 98, 111, 100,
                 121, 58, 32>>
            \o e.text
      [] e.variant = "FileSaveError" ->
            \* "failed to save file: {0}"
            <<102, 97, 105, 108, 101, 100, 32, 116, 111, 32, 115, 97, 118, 101,
              32, 102, 105, 108, 101, 58, 32>> \o e.text
      [] e.variant = "FileReadError" ->
            \* "failed to read file: {0}"
            <<102, 97, 105, 108, 101, 100, 32, 116, 111, 32, 114, 101, 97, 100,
              32, 102, 105, 108, 101, 58, 32>> \o e.text
      [] e.variant = "StreamError" ->
            \* "stream failed: {0}"
            <<115, 116, 114, 101, 97, 109, 32, 102, 97, 105, 108, 101, 100, 58,
              32>> \o e.text
      [] e.variant = "InvalidArgument" ->
            \* "invalid args: {0}"
            <<105, 110, 118, 97, 108, 105, 100, 32, 97, 114, 103, 115, 58, 32>>
            \o e.text

---------------------------------------------------------------------------
(* The derived Deserialize impls, applied to a value read from the body.   *)
(* A string in a position that is deserialized (a key of a struct, a       *)
(* String field, the buffered content of the untagged enum) must be        *)
(* well-formed UTF-8; the value of a key the struct does not know is       *)
(* skipped (IgnoredAny) whatever it holds.                                 *)

DeOk(x)  == [ok |-> TRUE, val |-> x]

\* String
DeString(v) ==
    IF v.t = "str" /\ v.u THEN DeOk(v.s) ELSE [ok |-> FALSE, val |-> <<>>]

\* Option<String>: null is None, anything else must be a String.
DeOptString(v) ==
    LET Got(r) == IF r.ok THEN DeOk(SomeStr(r.val)) ELSE [ok |-> FALSE, val |-> NoneStr]
    IN  IF v.t = "null" THEN DeOk(NoneStr) ELSE Got(DeString(v))

\* Mutant of DeErrorCode: an integer is narrowed to 16 bits instead of
\* being checked against them.
DeErrorCodeWrapping(v) ==
    IF v.t = "str" /\ v.u THEN DeOk(ErrorCodeStr(v.s))
    ELSE IF v.t = "int" THEN DeOk(ErrorCodeInt(v.n % (U16Max + 1)))
    ELSE [ok |-> FALSE, val |-> ErrorCodeInt(0)]

\* #[serde(untagged)] enum ErrorCode: the first variant that accepts the
\* buffered value, Str(String) before Int(u16).
DeErrorCode(v) ==
    IF v.t = "str" /\ v.u THEN DeOk(ErrorCodeStr(v.s))
    ELSE IF v.t = "int" /\ v.n >= 0 /\ v.n <= U16Max THEN DeOk(ErrorCodeInt(v.n))
    ELSE [ok |-> FALSE, val |-> ErrorCodeInt(0)]

\* Option<ErrorCode>
DeOptErrorCode(v) ==
    LET Got(r) == IF r.ok THEN DeOk(SomeCode(r.val)) ELSE [ok |-> FALSE, val |-> NoneCode]
    IN  IF v.t = "null" THEN DeOk(NoneCode) ELSE Got(DeErrorCode(v))

FlexErr == [ok |-> FALSE, val |-> ApiErrorOf(<<>>, NoneStr, NoneStr, NoneCode)]

\* Mutant of FlexVisitMap: a key the struct does not know is an error
\* (deny_unknown_fields).
RECURSIVE FlexVisitMapDenyUnknown(_, _, _)
FlexVisitMapDenyUnknown(kids, i, acc) ==
    LET Set(key, r, val) ==
            IF r.ok
            THEN FlexVisitMapDenyUnknown(kids, i + 1,
                                         [seen |-> acc.seen \cup {key}, val |-> val])
            ELSE FlexErr
        Visit(m) ==
            IF ~ m.ku THEN FlexErr
            ELSE IF m.k \in acc.seen THEN FlexErr
            ELSE IF m.k = KeyMessage THEN
                LET Got(r) == Set(m.k, r, [acc.val EXCEPT !.message = r.val])
                IN  Got(DeString(m.v))
            ELSE IF m.k = KeyType THEN
                LET Got(r) == Set(m.k, r, [acc.val EXCEPT !.type = r.val])
                IN  Got(DeOptString(m.v))
            ELSE IF m.k = KeyParam THEN
                LET Got(r) == Set(m.k, r, [acc.val EXCEPT !.param = r.val])
                IN  Got(DeOptString(m.v))
            ELSE IF m.k = KeyCode THEN
                LET Got(r) == Set(m.k, r, [acc.val EXCEPT !.code = r.val])
                IN  Got(DeOptErrorCode(m.v))
            ELSE FlexErr
    IN  IF i > Len(kids) THEN
            IF KeyMessage \in acc.seen THEN DeOk(acc.val) ELSE FlexErr
        ELSE Visit(kids[i])

\* visit_map of ApiErrorFlex: the members in order; acc.seen holds the
\* fields met so far.  A key met twice, a value of the wrong type or an
\* ill-formed key ends it with an error; unknown keys are skipped.
RECURSIVE FlexVisitMap(_, _, _)
FlexVisitMap(kids, i, acc) ==
    LET \* the field `key` was read as r; on with the next member
        Set(key, r, val) ==
            IF r.ok THEN FlexVisitMap(kids, i + 1, [seen |-> acc.seen \cup {key}, val |-> val])
            ELSE FlexErr
        Visit(m) ==
            IF ~ m.ku THEN FlexErr
            ELSE IF m.k \in acc.seen THEN FlexErr
            ELSE IF m.k = KeyMessage THEN
                LET Got(r) == Set(m.k, r, [acc.val EXCEPT !.message = r.val])
                IN  Got(DeString(m.v))
            ELSE IF m.k = KeyType THEN
                LET Got(r) == Set(m.k, r, [acc.val EXCEPT !.type = r.val])
                IN  Got(DeOptString(m.v))
            ELSE IF m.k = KeyParam THEN
                LET Got(r) == Set(m.k, r, [acc.val EXCEPT !.param = r.val])
                IN  Got(DeOptString(m.v))
            ELSE IF m.k = KeyCode THEN
                LET Got(r) == Set(m.k, r, [acc.val EXCEPT !.code = r.val])
                IN  Got(DeOptErrorCode(m.v))
            ELSE FlexVisitMap(kids, i + 1, acc)
    IN  IF i > Len(kids) THEN
            \* a missing Option field is None, a missing `message` is an error
            IF KeyMessage \in acc.seen THEN DeOk(acc.val) ELSE FlexErr
        ELSE Visit(kids[i])

\* visit_seq of ApiErrorFlex: the four fields in declaration order, no
\* element missing and none left over.
FlexVisitSeq(kids) ==
    LET Got(m, t, p, c) ==
            IF m.ok /\ t.ok /\ p.ok /\ c.ok
            THEN DeOk(ApiErrorOf(m.val, t.val, p.val, c.val))
            ELSE FlexErr
    IN  IF Len(kids) = 4
        THEN Got(DeString(kids[1].v), DeOptString(kids[2].v),
                 DeOptString(kids[3].v), DeOptErrorCode(kids[4].v))
        ELSE FlexErr

\* #[derive(Deserialize)] struct ApiErrorFlex
DeApiErrorFlex(v) ==
    IF v.t = "obj" THEN
        FlexVisitMap(v.kids, 1,
            [seen |-> {}, val |-> ApiErrorOf(<<>>, NoneStr, NoneStr, NoneCode)])
    ELSE IF v.t = "arr" THEN FlexVisitSeq(v.kids)
    ELSE FlexErr

\* visit_map of WrappedError: acc.seen tells whether `error` was met,
\* acc.val is its value.
RECURSIVE WrappedVisitMap(_, _, _)
WrappedVisitMap(kids, i, acc) ==
    LET Got(r) ==
            IF r.ok THEN WrappedVisitMap(kids, i + 1, [seen |-> TRUE, val |-> r.val])
            ELSE FlexErr
        Visit(m) ==
            IF ~ m.ku THEN FlexErr
            ELSE IF m.k = KeyError THEN
                IF acc.seen THEN FlexErr ELSE Got(DeApiErrorFlex(m.v))
            ELSE WrappedVisitMap(kids, i + 1, acc)
    IN  IF i > Len(kids) THEN
            IF acc.seen THEN DeOk(acc.val) ELSE FlexErr
        ELSE Visit(kids[i])

\* #[derive(Deserialize)] struct WrappedError { error: ApiErrorFlex }; the
\* value is the `error` field.
DeWrappedError(v) ==
    IF v.t = "obj" THEN
        WrappedVisitMap(v.kids, 1, [seen |-> FALSE, val |-> FlexErr.val])
    ELSE IF v.t = "arr" /\ Len(v.kids) = 1 THEN DeApiErrorFlex(v.kids[1].v)
    ELSE FlexErr

\* serde_json::from_slice::<WrappedError>(bytes)
FromSliceWrappedError(b) ==
    LET Got(r) == IF r.ok THEN DeWrappedError(r.v) ELSE FlexErr
    IN  Got(ReadDocument(b))

\* serde_json::from_slice::<ApiErrorFlex>(bytes)
FromSliceApiErrorFlex(b) ==
    LET Got(r) == IF r.ok THEN DeApiErrorFlex(r.v) ELSE FlexErr
    IN  Got(ReadDocument(b))

---------------------------------------------------------------------------
(* map_deserialization_error                                               *)

\* The event of tracing::error!(error = %err, "Failed to deserialize
\* response: {}", response_text).
LogEvent(e, response_text) ==
    [level   |-> "ERROR",
     error   |-> ErrorText(e),
     message |-> <<70, 97, 105, 108, 101, 100, 32, 116, 111, 32, 100, 101, 115,
                   101, 114, 105, 97, 108, 105, 122, 101, 32, 114, 101, 115,
                   112, 111, 110, 115, 101, 58, 32>> \o response_text]

\* Mutant of MapDeserializationError: the flat shape is tried first.
MapDeserializationErrorFlatFirst(e, b) ==
    LET Fallback(response_text) ==
            [ret    |-> JSONDeserialize(e, response_text),
             events |-> <<LogEvent(e, response_text)>>]
        TryWrapped(wrapped_error) ==
            IF wrapped_error.ok
            THEN [ret |-> ApiErrorVariant(FromApiErrorFlex(wrapped_error.val)), events |-> <<>>]
            ELSE Fallback(FromUtf8Lossy(b))
        TryFlat(api_error) ==
            IF api_error.ok
            THEN [ret |-> ApiErrorVariant(FromApiErrorFlex(api_error.val)), events |-> <<>>]
            ELSE TryWrapped(FromSliceWrappedError(b))
    IN  TryFlat(FromSliceApiErrorFlex(b))

\* Mutant of MapDeserializationError: the fallback carries the error of the
\* flat probe instead of the one passed in.
MapDeserializationErrorOwnError(e, b) ==
    LET Fallback(response_text) ==
            [ret    |-> JSONDeserialize(JsonError("flat", 1), response_text),
             events |-> <<LogEvent(JsonError("flat", 1), response_text)>>]
        TryFlat(api_error) ==
            IF api_error.ok
            THEN [ret |-> ApiErrorVariant(FromApiErrorFlex(api_error.val)), events |-> <<>>]
            ELSE Fallback(FromUtf8Lossy(b))
        TryWrapped(wrapped_error) ==
            IF wrapped_error.ok
            THEN [ret |-> ApiErrorVariant(FromApiErrorFlex(wrapped_error.val)), events |-> <<>>]
            ELSE TryFlat(FromSliceApiErrorFlex(b))
    IN  TryWrapped(FromSliceWrappedError(b))

\* Mutant of MapDeserializationError: the text is taken with
\* String::from_utf8(..).unwrap(), which panics on ill-formed UTF-8.
MapDeserializationErrorStrictText(e, b) ==
    LET Fallback(response_text) ==
            [ret    |-> JSONDeserialize(e, response_text),
             events |-> <<LogEvent(e, response_text)>>]
        TryFlat(api_error) ==
            IF api_error.ok
            THEN [ret |-> ApiErrorVariant(FromApiErrorFlex(api_error.val)), events |-> <<>>]
            ELSE Fallback(FromUtf8Lossy(b))
        TryWrapped(wrapped_error) ==
            IF wrapped_error.ok
            THEN [ret |-> ApiErrorVariant(FromApiErrorFlex(wrapped_error.val)), events |-> <<>>]
            ELSE TryFlat(FromSliceApiErrorFlex(b))
    IN  IF Utf8ValidFrom(b, 1) THEN TryWrapped(FromSliceWrappedError(b))
        ELSE [ret |-> OpenAIErrorOf("panic", NoApiError, NoJsonError, <<>>), events |-> <<>>]

\* Mutant of MapDeserializationError: the event is emitted before the
\* probes, on every call.
MapDeserializationErrorLogsFirst(e, b) ==
    LET Logged(response_text) == <<LogEvent(e, response_text)>>
        Fallback(response_text) ==
            [ret |-> JSONDeserialize(e, response_text), events |-> Logged(response_text)]
        TryFlat(api_error) ==
            IF api_error.ok
            THEN [ret    |-> ApiErrorVariant(FromApiErrorFlex(api_error.val)),
                  events |-> Logged(FromUtf8Lossy(b))]
            ELSE Fallback(FromUtf8Lossy(b))
        TryWrapped(wrapped_error) ==
            IF wrapped_error.ok
            THEN [ret    |-> ApiErrorVariant(FromApiErrorFlex(wrapped_error.val)),
                  events |-> Logged(FromUtf8Lossy(b))]
            ELSE TryFlat(FromSliceApiErrorFlex(b))
    IN  TryWrapped(FromSliceWrappedError(b))

\* The returned error and the events emitted on the way.
MapDeserializationError(e, b) ==
    LET Fallback(response_text) ==
            [ret    |-> JSONDeserialize(e, response_text),
             events |-> <<LogEvent(e, response_text)>>]
        TryFlat(api_error) ==
            IF api_error.ok
            THEN [ret |-> ApiErrorVariant(FromApiErrorFlex(api_error.val)), events |-> <<>>]
            ELSE Fallback(FromUtf8Lossy(b))
        TryWrapped(wrapped_error) ==
            IF wrapped_error.ok
            THEN [ret |-> ApiErrorVariant(FromApiErrorFlex(wrapped_error.val)), events |-> <<>>]
            ELSE TryFlat(FromSliceApiErrorFlex(b))
    IN  TryWrapped(FromSliceWrappedError(b))

---------------------------------------------------------------------------
(* The bodies handed to map_deserialization_error: documents written out   *)
(* as JSON text, and raw byte strings.                                     *)

\* Blanks written around a document.
MaxPad == 1

\* The decode errors of the caller's failed parse.
CallerErrors == {JsonError("caller", k) : k \in 1..MaxErrIds}

RECURSIVE EncodeNat(_)
EncodeNat(x) ==
    IF x < 10 THEN <<Ch.zero + x>> ELSE EncodeNat(x \div 10) \o <<Ch.zero + (x % 10)>>

\* Text between quotes.  The documents hold ASCII text; a replacement
\* character in a document stands for the ill-formed byte 0xFF in the body.
RECURSIVE EncodeText(_)
EncodeText(x) ==
    IF Len(x) = 0 THEN <<>>
    ELSE (IF Head(x) = Ch.replacement THEN <<255>>
          ELSE IF Head(x) \in {Ch.quote, Ch.backslash} THEN <<Ch.backslash, Head(x)>>
          ELSE <<Head(x)>>) \o EncodeText(Tail(x))

Quoted(x) == <<Ch.quote>> \o EncodeText(x) \o <<Ch.quote>>

RECURSIVE Encode(_), EncodeKids(_, _, _)
\* The compact JSON text of a document.
Encode(v) ==
    CASE v.t = "null"  -> <<110, 117, 108, 108>>
      [] v.t = "bool"  -> IF v.n = 1 THEN <<116, 114, 117, 101>>
                          ELSE <<102, 97, 108, 115, 101>>
      [] v.t = "int"   -> IF v.n < 0 THEN <<Ch.minus>> \o EncodeNat(0 - v.n)
                          ELSE EncodeNat(v.n)
      [] v.t = "float" -> <<49, 46, 53>>                        \* 1.5
      [] v.t = "str"   -> Quoted(v.s)
      [] v.t = "arr"   -> <<Ch.lbracket>> \o EncodeKids(v.kids, 1, FALSE) \o <<Ch.rbracket>>
      [] v.t = "obj"   -> <<Ch.lbrace>> \o EncodeKids(v.kids, 1, TRUE) \o <<Ch.rbrace>>

EncodeKids(kids, i, keyed) ==
    IF i > Len(kids) THEN <<>>
    ELSE (IF i > 1 THEN <<Ch.comma>> ELSE <<>>)
         \o (IF keyed THEN Quoted(kids[i].k) \o <<Ch.colon>> ELSE <<>>)
         \o Encode(kids[i].v)
         \o EncodeKids(kids, i + 1, keyed)

Blanks(k) == [i \in 1..k |-> Ch.space]

\* Marks a body that was not written from a document.
NoDoc == [t |-> "raw", n |-> 0, s |-> <<>>, u |-> TRUE, kids |-> <<>>]

\* Zero or one member under `key`, one choice per value.
Opt(key, values) == {<<>>} \cup {<<Member(key, v)>> : v \in values}

\* Values a `code` member takes on the wire: in and out of what ErrorCode accepts.
CodeValues(text) ==
    { JNull, JStr(text), JInt(0), JInt(429), JInt(U16Max), JInt(U16Max + 1),
      JInt(-1), JFloat, JBool(TRUE), JArr(<<>>), JObj(<<>>) }

\* Member lists of an error detail whose texts start with `tag`.
DetailMembers(tag) ==
    { m \o t \o p \o c :
        m \in Opt(KeyMessage, {JStr(tag \o <<77>>), JNull}),              \* M
        t \in Opt(KeyType, {JStr(tag \o <<84>>), JNull}),                 \* T
        p \in Opt(KeyParam, {JStr(tag \o <<80>>), JInt(5)}),              \* P
        c \in Opt(KeyCode, CodeValues(tag \o <<67>>)) }                   \* C

\* Nested details and top-level member lists combined in the same body.
NestedSamples ==
    { JObj(<<Member(KeyMessage, JStr(<<78, 77>>))>>),
      JObj(<<Member(KeyMessage, JStr(<<78, 77>>)), Member(KeyType, JStr(<<78, 84>>)),
             Member(KeyParam, JStr(<<78, 80>>)), Member(KeyCode, JInt(404))>>),
      JObj(<<Member(KeyType, JStr(<<78, 84>>)), Member(KeyCode, JStr(<<78, 67>>))>>),
      JObj(<<Member(KeyMessage, JStr(<<78, 77>>)), Member(KeyCode, JInt(U16Max + 1))>>),
      JArr(<<Elem(JStr(<<78, 77>>)), Elem(JNull), Elem(JNull), Elem(JInt(7))>>),
      JNull,
      JStr(<<78, 77>>) }

TopSamples ==
    { <<Member(KeyMessage, JStr(<<77>>))>>,
      <<Member(KeyMessage, JStr(<<77>>)), Member(KeyType, JStr(<<84>>)),
        Member(KeyParam, JStr(<<80>>)), Member(KeyCode, JInt(429))>>,
      <<Member(KeyMessage, JStr(<<77>>)), Member(KeyCode, JInt(U16Max + 1))>>,
      <<Member(KeyType, JStr(<<84>>)), Member(KeyCode, JStr(<<67>>))>>,
      <<Member(<<120>>, JInt(1))>>,                                       \* x
      <<Member(KeyMessage, JStr(<<77>>)), Member(<<120>>, JStrU(<<Ch.replacement>>, FALSE))>>,
      <<Member(KeyMessage, JInt(1))>> }

\* Bodies off the two wire shapes: duplicate keys, ill-formed UTF-8,
\* sequences in place of structs, scalars.
OddDocuments ==
    LET msg == Member(KeyMessage, JStr(<<77>>))
        nested == JObj(<<Member(KeyMessage, JStr(<<78, 77>>))>>)
        bad == JStrU(<<Ch.replacement>>, FALSE)
    IN  { JObj(<<msg, Member(KeyMessage, JStr(<<77, 77>>))>>),
          JObj(<<msg, Member(KeyParam, JNull), Member(KeyParam, JStr(<<80>>))>>),
          JObj(<<msg, Member(<<120>>, JInt(1)), Member(<<120>>, JInt(2))>>),
          JObj(<<Member(KeyError, nested), Member(KeyError, nested)>>),
          JObj(<<Member(KeyError, nested), Member(KeyError, nested), msg>>),
          JObj(<<Member(KeyMessage, bad)>>),
          JObj(<<msg, Member(KeyType, bad)>>),
          JObj(<<msg, Member(KeyCode, bad)>>),
          JObj(<<msg, [k |-> <<Ch.replacement>>, ku |-> FALSE, v |-> JInt(1)]>>),
          JObj(<<msg, Member(<<120>>, JObj(<<[k |-> <<Ch.replacement>>, ku |-> FALSE, v |-> bad]>>))>>),
          JObj(<<Member(KeyError, nested), Member(<<120>>, bad)>>),
          JObj(<<Member(KeyError, nested), [k |-> <<Ch.replacement>>, ku |-> FALSE, v |-> JInt(1)]>>),
          JObj(<<Member(KeyError, JObj(<<Member(KeyMessage, bad)>>)), msg>>),
          JObj(<<Member(KeyError, JObj(<<Member(KeyMessage, JStr(<<78, 77>>)),
                                         Member(<<120>>, bad)>>))>>),
          JArr(<<Elem(JStr(<<77>>)), Elem(JStr(<<84>>)), Elem(JStr(<<80>>)), Elem(JInt(429))>>),
          JArr(<<Elem(JStr(<<77>>)), Elem(JNull), Elem(JNull), Elem(JNull)>>),
          JArr(<<Elem(JStr(<<77>>)), Elem(JNull), Elem(JNull), Elem(JInt(U16Max + 1))>>),
          JArr(<<Elem(JStr(<<77>>)), Elem(JNull), Elem(JNull)>>),
          JArr(<<Elem(JStr(<<77>>)), Elem(JNull), Elem(JNull), Elem(JNull), Elem(JNull)>>),
          JArr(<<Elem(nested)>>),
          JArr(<<Elem(JArr(<<Elem(JStr(<<78, 77>>)), Elem(JNull), Elem(JNull), Elem(JStr(<<78, 67>>))>>))>>),
          JArr(<<Elem(nested), Elem(nested)>>),
          JArr(<<>>), JObj(<<>>), JNull, JInt(1), JFloat, JBool(FALSE), JStr(<<77>>),
          \* {"message":"Invalid API key","type":"invalid_request_error","param":null,"code":"400"}
          JObj(<<Member(KeyMessage, JStr(<<73, 110, 118, 97, 108, 105, 100, 32, 65, 80, 73, 32, 107, 101, 121>>)),
                 Member(KeyType, JStr(<<105, 110, 118, 97, 108, 105, 100, 95, 114, 101, 113, 117, 101, 115, 116, 95, 101, 114, 114, 111, 114>>)),
                 Member(KeyParam, JNull),
                 Member(KeyCode, JStr(<<52, 48, 48>>))>>),
          \* {"message":"Rate limit exceeded","type":"rate_limit_exceeded","param":"requests","code":429}
          JObj(<<Member(KeyMessage, JStr(<<82, 97, 116, 101, 32, 108, 105, 109, 105, 116, 32, 101, 120, 99, 101, 101, 100, 101, 100>>)),
                 Member(KeyType, JStr(<<114, 97, 116, 101, 95, 108, 105, 109, 105, 116, 95, 101, 120, 99, 101, 101, 100, 101, 100>>)),
                 Member(KeyParam, JStr(<<114, 101, 113, 117, 101, 115, 116, 115>>)),
                 Member(KeyCode, JInt(429))>>) }

Documents ==
    {JObj(f) : f \in DetailMembers(<<>>)}
    \cup {JObj(<<Member(KeyError, JObj(f))>>) : f \in DetailMembers(<<78>>)}      \* N
    \cup {JObj(<<Member(KeyError, e)>> \o f) : e \in NestedSamples, f \in TopSamples}
    \cup {JObj(f \o <<Member(KeyError, e)>>) : e \in NestedSamples, f \in TopSamples}
    \cup OddDocuments

\* Bytes the raw bodies are made of: a quote, a brace, a digit, a two-byte
\* scalar's lead and continuation byte, and a byte no scalar contains.
RawAlphabet == {Ch.quote, Ch.lbrace, 49, 195, 169, 255}

RawBodies ==
    UNION {[1..k -> RawAlphabet] : k \in 0..MaxRawLen}
    \cup { <<110, 111, 116, 32, 106, 115, 111, 110, 32, 97, 116, 32, 97, 108, 108>>,  \* not json at all
           <<123, 34, 109, 101, 115, 115, 97, 103, 101, 34, 58, 34, 77, 34>>,        \* {"message":"M"
           <<123, 34, 109, 101, 115, 115, 97, 103, 101, 34, 58, 34, 77, 34, 125, 120>>, \* {"message":"M"}x
           <<123, 34, 109, 101, 115, 115, 97, 103, 101, 34, 58, 34, 77, 34, 44, 125>> } \* {"message":"M",}

Bodies ==
    {[doc |-> d, bytes |-> Blanks(k) \o Encode(d) \o Blanks(k)] : d \in Documents, k \in 0..MaxPad}
    \cup {[doc |-> NoDoc, bytes |-> b] : b \in RawBodies}

\* Messages of the transport errors and details of the locally built errors.
Details == {<<85>>, <<81, 32, 68>>}                                     \* U, Q D

---------------------------------------------------------------------------
(* The operations.                                                         *)

Init ==
    /\ pc = "idle"
    /\ op = "none"
    /\ bytes = <<>>
    /\ err = NoJsonError
    /\ doc = NoDoc
    /\ result = NoOpenAIError
    /\ log = <<>>
    /\ rendered = <<>>

\* A caller whose parse of the body failed calls map_deserialization_error.
Classify ==
    /\ pc = "idle"
    /\ \E body \in Bodies, e \in CallerErrors :
         LET Returns(out) ==
                 /\ bytes' = body.bytes
                 /\ doc' = body.doc
                 /\ err' = e
                 /\ result' = out.ret
                 /\ log' = log \o out.events
         IN  Returns(MapDeserializationError(e, body.bytes))
    /\ op' = "map_deserialization_error"
    /\ pc' = "returned"
    /\ UNCHANGED rendered

\* #[from] reqwest::Error
FromReqwest ==
    /\ pc = "idle"
    /\ \E msg \in Details : result' = Reqwest(msg)
    /\ op' = "from"
    /\ pc' = "returned"
    /\ UNCHANGED <<bytes, err, doc, log, rendered>>

\* One of the String-carrying variants is built where the failure happens.
Construct ==
    /\ pc = "idle"
    /\ \E v \in DetailVariants, d \in Details : result' = DetailVariant(v, d)
    /\ op' = "construct"
    /\ pc' = "returned"
    /\ UNCHANGED <<bytes, err, doc, log, rendered>>

\* The error is formatted (to_string / {}).
Display ==
    /\ pc = "returned"
    /\ rendered' = DisplayOpenAIError(result)
    /\ pc' = "displayed"
    /\ UNCHANGED <<op, bytes, err, doc, result, log>>

Next == Classify \/ FromReqwest \/ Construct \/ Display

Spec == Init /\ [][Next]_vars

---------------------------------------------------------------------------
(* The wire shapes, stated on the document a body was written from.        *)

Classified == op = "map_deserialization_error"

\* The values under `key` in the object d.
ValuesOf(d, key) == SelectSeq(d.kids, LAMBDA m : m.k = key)
Count(d, key)    == Len(ValuesOf(d, key))
Get(d, key)      == ValuesOf(d, key)[1].v

KeysWellFormed(d) == \A i \in DOMAIN d.kids : d.kids[i].ku

GoodText(v)    == v.t = "str" /\ v.u
GoodOptText(v) == v.t = "null" \/ GoodText(v)
GoodCode(v)    == v.t = "null" \/ GoodText(v) \/ (v.t = "int" /\ v.n >= 0 /\ v.n <= U16Max)

\* Present, not null, and neither a string nor an integer of 16 bits.
BadCode(v) == v.t \in {"int", "float", "bool", "arr", "obj"} /\ ~ GoodCode(v)

\* {"message": str, "type"?: str, "param"?: str, "code"?: str|int}, other
\* keys allowed, none of the four twice.
IsDetailObject(d) ==
    /\ d.t = "obj"
    /\ KeysWellFormed(d)
    /\ Count(d, KeyMessage) = 1 /\ GoodText(Get(d, KeyMessage))
    /\ Count(d, KeyType) <= 1  /\ (Count(d, KeyType) = 1  => GoodOptText(Get(d, KeyType)))
    /\ Count(d, KeyParam) <= 1 /\ (Count(d, KeyParam) = 1 => GoodOptText(Get(d, KeyParam)))
    /\ Count(d, KeyCode) <= 1  /\ (Count(d, KeyCode) = 1  => GoodCode(Get(d, KeyCode)))

\* The same four fields as a sequence, in declaration order.
IsDetailSeq(d) ==
    /\ d.t = "arr"
    /\ Len(d.kids) = 4
    /\ GoodText(d.kids[1].v) /\ GoodOptText(d.kids[2].v)
    /\ GoodOptText(d.kids[3].v) /\ GoodCode(d.kids[4].v)

IsDetail(d) == IsDetailObject(d) \/ IsDetailSeq(d)

\* {"error": <detail>}, other keys allowed, "error" once.
IsEnvelopeObject(d) ==
    /\ d.t = "obj"
    /\ KeysWellFormed(d)
    /\ Count(d, KeyError) = 1
    /\ IsDetail(Get(d, KeyError))

IsEnvelope(d) ==
    IsEnvelopeObject(d) \/ (d.t = "arr" /\ Len(d.kids) = 1 /\ IsDetail(d.kids[1].v))

\* The detail inside an envelope.
Nested(d) == IF d.t = "obj" THEN Get(d, KeyError) ELSE d.kids[1].v

\* The field of a detail, null when it is missing.
FieldOf(d, key, pos) ==
    IF d.t = "arr" THEN d.kids[pos].v
    ELSE IF Count(d, key) = 0 THEN JNull ELSE Get(d, key)

RECURSIVE DigitsValue(_)
DigitsValue(x) ==
    IF Len(x) = 0 THEN 0
    ELSE DigitsValue(SubSeq(x, 1, Len(x) - 1)) * 10 + (x[Len(x)] - Ch.zero)

\* x is the base-10 text of n: digits only, no leading zero, value n.
IsDecimalTextOf(x, n) ==
    /\ Len(x) >= 1
    /\ \A i \in DOMAIN x : IsDigit(x[i])
    /\ (Len(x) = 1 \/ x[1] # Ch.zero)
    /\ DigitsValue(x) = n

OptIs(o, v)  == IF v.t = "null" THEN ~ o.some ELSE o.some /\ o.val = v.s
CodeIs(o, v) ==
    CASE v.t = "null" -> ~ o.some
      [] v.t = "str"  -> o.some /\ o.val = v.s
      [] v.t = "int"  -> o.some /\ IsDecimalTextOf(o.val, v.n)
      [] OTHER        -> FALSE

\* The ApiError a carries the fields of the detail d, the code as text.
CarriesDetail(a, d) ==
    /\ a.message = FieldOf(d, KeyMessage, 1).s
    /\ OptIs(a.type, FieldOf(d, KeyType, 2))
    /\ OptIs(a.param, FieldOf(d, KeyParam, 3))
    /\ CodeIs(a.code, FieldOf(d, KeyCode, 4))

IsApiError     == result.variant = "ApiError"
IsDeserialize  == result.variant = "JSONDeserialize"

\* The shapes as stated above are the shapes the two probes accept.
ShapesAgree ==
    (Classified /\ doc # NoDoc) =>
        /\ IsEnvelope(doc) <=> FromSliceWrappedError(bytes).ok
        /\ IsDetail(doc) <=> FromSliceApiErrorFlex(bytes).ok

RawBodiesMatchNothing ==
    (Classified /\ doc = NoDoc) =>
        ~ FromSliceWrappedError(bytes).ok /\ ~ FromSliceApiErrorFlex(bytes).ok

---------------------------------------------------------------------------
(* C1: a body that parses as a wrapped envelope is classified as ApiError  *)
(* carrying the message, type, param and code (as text) of the nested      *)
(* error object, whatever else the top level holds; neither the flat       *)
(* parse nor the fallback decides it, and every body the wrapped probe     *)
(* accepts is such an envelope.                                            *)
C1_WrappedWins ==
    Classified =>
        /\ (doc # NoDoc /\ IsEnvelope(doc)) =>
              /\ IsApiError
              /\ CarriesDetail(result.api, Nested(doc))
              /\ log = <<>>
        /\ FromSliceWrappedError(bytes).ok => (doc # NoDoc /\ IsEnvelope(doc))

\* An envelope whose top level is a flat detail as well; the nested one is returned.
C1_Witness ==
    /\ Classified /\ doc # NoDoc
    /\ IsEnvelopeObject(doc) /\ IsDetailObject(doc)
    /\ IsApiError
    /\ result.api.message = <<78, 77>>                   \* NM
    /\ result.api.code = SomeStr(<<52, 48, 52>>)         \* 404

---------------------------------------------------------------------------
(* C2: a body that parses as the flat shape and not as the wrapped one is  *)
(* classified as ApiError with message, type and param copied; a missing   *)
(* or null code stays absent, a string code is unchanged, an integer code  *)
(* in 0..65535 becomes its base-10 text (429 -> "429").                    *)
C2_FlatNormalized ==
    (Classified /\ doc # NoDoc /\ IsDetail(doc) /\ ~ IsEnvelope(doc)) =>
        /\ IsApiError
        /\ CarriesDetail(result.api, doc)
        /\ FieldOf(doc, KeyCode, 4) = JInt(429) => result.api.code = SomeStr(<<52, 50, 57>>)
        /\ FieldOf(doc, KeyCode, 4) = JInt(0) => result.api.code = SomeStr(<<48>>)
        /\ FieldOf(doc, KeyCode, 4).t = "null" => result.api.code = NoneStr

\* The largest integer code, on a flat body.
C2_Witness ==
    /\ Classified /\ doc # NoDoc
    /\ IsDetailObject(doc) /\ ~ IsEnvelope(doc)
    /\ Get(doc, KeyMessage).s = <<77>>
    /\ Count(doc, KeyCode) = 1 /\ Get(doc, KeyCode) = JInt(U16Max)
    /\ IsApiError
    /\ result.api.code = SomeStr(<<54, 53, 53, 51, 53>>)  \* 65535

---------------------------------------------------------------------------
(* UTF-8 in the writing direction, to state what a lossy decoding is.      *)

\* The UTF-8 bytes of one code point.
Utf8Encode(cp) ==
    IF cp < 128 THEN <<cp>>
    ELSE IF cp < 2048 THEN <<192 + (cp \div 64), 128 + (cp % 64)>>
    ELSE IF cp < 65536 THEN
        <<224 + (cp \div 4096), 128 + ((cp \div 64) % 64), 128 + (cp % 64)>>
    ELSE <<240 + (cp \div 262144), 128 + ((cp \div 4096) % 64),
           128 + ((cp \div 64) % 64), 128 + (cp % 64)>>

\* text[i..] decodes b[j..]: every code point stands for its own UTF-8
\* bytes, and a replacement character may also stand for one to three bytes
\* that start no well-formed scalar (a lead or stray byte and continuation
\* bytes behind it).
RECURSIVE Decodes(_, _, _, _)
Decodes(text, i, b, j) ==
    IF i > Len(text) THEN j > Len(b)
    ELSE IF j > Len(b) THEN FALSE
    ELSE \/ /\ HasWord(b, j, Utf8Encode(text[i]))
            /\ Decodes(text, i + 1, b, j + Len(Utf8Encode(text[i])))
         \/ /\ text[i] = Ch.replacement
            /\ b[j] >= 128
            /\ ~ Utf8Step(b, j).ok
            /\ \E n \in 1..3 :
                 /\ \A k \in 1..(n - 1) : IsCont(At(b, j + k))
                 /\ Decodes(text, i + 1, b, j + n)

\* Well-formed JSON text: the JSON grammar, in well-formed UTF-8.
ValidJson(b) == ReadDocument(b).ok /\ Utf8ValidFrom(b, 1)

Neither == ~ FromSliceWrappedError(bytes).ok /\ ~ FromSliceApiErrorFlex(bytes).ok

NotJsonAtAll == <<110, 111, 116, 32, 106, 115, 111, 110, 32, 97, 116, 32, 97, 108, 108>>

---------------------------------------------------------------------------
(* C3, as stated: a body that parses as neither shape, and in particular   *)
(* every body that is not valid JSON (ill-formed UTF-8 included), yields   *)
(* the deserialization failure with the caller's error and the lossy text. *)
(* Refuted by a flat error object with an ill-formed string under a key    *)
(* the struct ignores: not valid JSON, and classified as ApiError.         *)
C3_Original ==
    (Classified /\ (Neither \/ ~ ValidJson(bytes))) =>
        /\ IsDeserialize
        /\ result.error = err
        /\ result.text = FromUtf8Lossy(bytes)

(* C3, amended: a body that parses as neither shape yields the             *)
(* deserialization failure carrying the error passed in (not one of the    *)
(* probes' own) and the lossy UTF-8 decoding of the whole body; every body *)
(* that is not well-formed JSON syntax, and every raw body of the model,   *)
(* is such a body.                                                         *)
C3_NeitherFallsBack ==
    Classified =>
        /\ Neither =>
              /\ IsDeserialize
              /\ result.error = err
              /\ result.error.origin = "caller"
              /\ result.text = FromUtf8Lossy(bytes)
              /\ Decodes(result.text, 1, bytes, 1)
              /\ (\A i \in DOMAIN bytes : bytes[i] < 128) => result.text = bytes
        /\ ~ ReadDocument(bytes).ok => Neither
        /\ doc = NoDoc => Neither
        /\ bytes = NotJsonAtAll => result.text = NotJsonAtAll

\* A raw body with a byte that starts no scalar, replaced in the text.
C3_Witness ==
    /\ Classified /\ doc = NoDoc
    /\ \E i \in DOMAIN bytes : bytes[i] = 255
    /\ IsDeserialize
    /\ \E i \in DOMAIN result.text : result.text[i] = Ch.replacement
    /\ result.error = err

---------------------------------------------------------------------------
(* C4: the classifier is total: on every body, the empty one and the       *)
(* malformed ones included, it returns one error value, which is ApiError  *)
(* or the deserialization failure and nothing else; the empty body yields  *)
(* the deserialization failure with empty text.                            *)
C4_Total ==
    /\ pc = "idle" =>
          \A body \in Bodies, e \in CallerErrors :
              MapDeserializationError(e, body.bytes).ret.variant
                  \in {"ApiError", "JSONDeserialize"}
    /\ Classified =>
          /\ pc \in {"returned", "displayed"}
          /\ result.variant \in {"ApiError", "JSONDeserialize"}
          /\ IsApiError => (result.error = NoJsonError /\ result.text = <<>>)
          /\ IsDeserialize => result.api = NoApiError
          /\ bytes = <<>> => (IsDeserialize /\ result.text = <<>> /\ result.error = err)

\* The empty body was classified.
C4_Witness ==
    Classified /\ bytes = <<>> /\ IsDeserialize /\ result.text = <<>>

---------------------------------------------------------------------------
(* C5: an ApiError renders as "{type}: " (if type is present), the         *)
(* message, " (param: {param})" (if present), " (code: {code})" (if        *)
(* present): the tokens in that order with one space between them and      *)
(* nothing for an absent field; with only the message set the rendering is *)
(* the message.                                                            *)
ApiErrorText(a) ==
    (IF a.type.some THEN a.type.val \o <<58, 32>> ELSE <<>>)
    \o a.message
    \o (IF a.param.some
        THEN <<32, 40, 112, 97, 114, 97, 109, 58, 32>> \o a.param.val \o <<41>> ELSE <<>>)
    \o (IF a.code.some
        THEN <<32, 40, 99, 111, 100, 101, 58, 32>> \o a.code.val \o <<41>> ELSE <<>>)

C5_ApiErrorDisplay ==
    (pc = "displayed" /\ IsApiError) =>
        /\ rendered = ApiErrorText(result.api)
        /\ (~ result.api.type.some /\ ~ result.api.param.some /\ ~ result.api.code.some)
              => rendered = result.api.message
        /\ result.api = ApiErrorOf(<<77>>, SomeStr(<<84>>), SomeStr(<<80>>), SomeStr(<<52, 50, 57>>))
              \* "T: M (param: P) (code: 429)"
              => rendered = <<84, 58, 32, 77, 32, 40, 112, 97, 114, 97, 109, 58, 32, 80, 41,
                              32, 40, 99, 111, 100, 101, 58, 32, 52, 50, 57, 41>>

\* An ApiError with type and code but no param was rendered.
C5_Witness ==
    /\ pc = "displayed" /\ IsApiError
    /\ result.api.type.some /\ ~ result.api.param.some /\ result.api.code.some
    /\ rendered = result.api.type.val \o <<58, 32>> \o result.api.message
                  \o <<32, 40, 99, 111, 100, 101, 58, 32>> \o result.api.code.val \o <<41>>

---------------------------------------------------------------------------
(* C6: a code that is present, not null, and neither a string nor an       *)
(* integer in 0..65535 makes the shape fail to parse: a flat body with     *)
(* such a code, and a wrapped body with such a code and no top-level       *)
(* message, are classified as the deserialization failure; an ApiError     *)
(* never carries a code converted from such a value.                       *)
HasBadCode(d) ==
    \/ d.t = "obj" /\ \E i \in DOMAIN d.kids : d.kids[i].k = KeyCode /\ BadCode(d.kids[i].v)
    \/ d.t = "arr" /\ Len(d.kids) = 4 /\ BadCode(d.kids[4].v)

C6_BadCodeRejected ==
    (Classified /\ doc # NoDoc) =>
        /\ (Count(doc, KeyError) = 0 /\ HasBadCode(doc)) => IsDeserialize
        /\ (doc.t = "obj" /\ Count(doc, KeyMessage) = 0
             /\ \E i \in DOMAIN doc.kids :
                    doc.kids[i].k = KeyError /\ HasBadCode(doc.kids[i].v))
              => IsDeserialize
        /\ IsApiError =>
              LET used == IF IsEnvelope(doc) THEN Nested(doc) ELSE doc
              IN  /\ GoodCode(FieldOf(used, KeyCode, 4))
                  /\ CodeIs(result.api.code, FieldOf(used, KeyCode, 4))

\* A flat body whose code is 65536.
C6_Witness ==
    /\ Classified /\ doc # NoDoc
    /\ doc.t = "obj" /\ Count(doc, KeyError) = 0
    /\ Count(doc, KeyMessage) = 1 /\ GoodText(Get(doc, KeyMessage))
    /\ Count(doc, KeyCode) = 1 /\ Get(doc, KeyCode) = JInt(U16Max + 1)
    /\ IsDeserialize

---------------------------------------------------------------------------
(* C7, as stated: no body parses both as a wrapped envelope and as a flat  *)
(* error detail.  Refuted by an object that holds an "error" member and a  *)
(* top-level "message": both probes accept it.                             *)
C7_Original ==
    Classified => ~ (FromSliceWrappedError(bytes).ok /\ FromSliceApiErrorFlex(bytes).ok)

(* C7, amended: a body may parse as both shapes (an object that holds a    *)
(* parsable "error" member and parsable top-level fields); a body that     *)
(* parses as the wrapped shape never falls through to the flat parse: its  *)
(* result is the one built from the nested detail, also where the flat     *)
(* parse of the same body gives another.                                   *)
C7_WrappedNeverFallsThrough ==
    Classified =>
        /\ FromSliceWrappedError(bytes).ok =>
              /\ IsApiError
              /\ result.api = FromApiErrorFlex(FromSliceWrappedError(bytes).val)
        /\ (FromSliceWrappedError(bytes).ok /\ FromSliceApiErrorFlex(bytes).ok) =>
              /\ doc.t = "obj" /\ Count(doc, KeyError) = 1 /\ Count(doc, KeyMessage) = 1
              /\ result.api.message = FieldOf(Nested(doc), KeyMessage, 1).s

\* A body both probes accept, with different details.
C7_Witness ==
    /\ Classified
    /\ FromSliceWrappedError(bytes).ok /\ FromSliceApiErrorFlex(bytes).ok
    /\ FromSliceWrappedError(bytes).val # FromSliceApiErrorFlex(bytes).val
    /\ result.api = FromApiErrorFlex(FromSliceWrappedError(bytes).val)

---------------------------------------------------------------------------
(* C8: one invocation emits the diagnostic record exactly once if it       *)
(* returns the deserialization failure and not at all if it returns        *)
(* ApiError; the record holds the caller's decode error and the text the   *)
(* returned error carries; nothing else emits a record.                    *)
C8_LogOnlyOnFallback ==
    /\ ~ Classified => log = <<>>
    /\ Classified =>
          /\ Len(log) <= 1
          /\ Len(log) = 1 <=> IsDeserialize
          /\ IsApiError => log = <<>>
          /\ IsDeserialize =>
                /\ log[1].level = "ERROR"
                /\ log[1].error = ErrorText(err)
                /\ log[1].message =
                       <<70, 97, 105, 108, 101, 100, 32, 116, 111, 32, 100, 101, 115, 101, 114,
                         105, 97, 108, 105, 122, 101, 32, 114, 101, 115, 112, 111, 110, 115, 101,
                         58, 32>> \o result.text

\* A body of the model's documents fell through and was logged.
C8_Witness ==
    /\ Classified /\ doc # NoDoc /\ IsDeserialize
    /\ Len(log) = 1 /\ log[1].error = ErrorText(err)

---------------------------------------------------------------------------
(* C9, as stated: a transport error renders as the underlying error's own  *)
(* message, an ApiError as its detail renders.  Refuted by any Reqwest     *)
(* value: the format is "http error: {0}".                                 *)
C9_Original ==
    pc = "displayed" =>
        /\ result.variant = "Reqwest" => rendered = result.text
        /\ IsApiError => rendered = ApiErrorText(result.api)

(* C9, amended: a transport error renders as "http error: " followed by    *)
(* the underlying error's message; an ApiError renders exactly as its      *)
(* detail renders.                                                         *)
C9_VariantDisplay ==
    pc = "displayed" =>
        /\ result.variant = "Reqwest" =>
              rendered = <<104, 116, 116, 112, 32, 101, 114, 114, 111, 114, 58, 32>>
                         \o result.text
        /\ IsApiError => rendered = DisplayApiError(result.api)

\* A transport error was rendered.
C9_Witness ==
    /\ pc = "displayed" /\ op = "from" /\ result.variant = "Reqwest"
    /\ Len(rendered) = 12 + Len(result.text)

---------------------------------------------------------------------------
(* C10: when the object has an "error" member whose value does not parse   *)
(* as an error detail, the flat attempt still runs on the whole object and *)
(* skips the keys it does not know: the result is ApiError built from the  *)
(* top-level message, type, param and code if the top level is a detail,   *)
(* and the deserialization failure if not; nothing of the nested object    *)
(* appears in a returned ApiError.                                         *)
NestedTexts(d) ==
    (IF d.t = "str" THEN {d.s} ELSE {})
    \cup {d.kids[i].v.s : i \in {j \in DOMAIN d.kids : d.kids[j].v.t = "str"}}
    \cup {EncodeNat(d.kids[i].v.n) :
            i \in {j \in DOMAIN d.kids : d.kids[j].v.t = "int" /\ d.kids[j].v.n >= 0}}

ApiTexts(a) ==
    {a.message}
    \cup (IF a.type.some THEN {a.type.val} ELSE {})
    \cup (IF a.param.some THEN {a.param.val} ELSE {})
    \cup (IF a.code.some THEN {a.code.val} ELSE {})

C10_FailedNestedFallsToFlat ==
    (Classified /\ doc # NoDoc /\ doc.t = "obj"
       /\ Count(doc, KeyError) = 1 /\ ~ IsDetail(Get(doc, KeyError))) =>
        /\ IsDetailObject(doc) => (IsApiError /\ CarriesDetail(result.api, doc))
        /\ ~ IsDetailObject(doc) => IsDeserialize
        /\ IsApiError => ApiTexts(result.api) \cap NestedTexts(Get(doc, KeyError)) = {}

\* A nested object with an out-of-range code beside a valid top level.
C10_Witness ==
    /\ Classified /\ doc # NoDoc /\ doc.t = "obj"
    /\ Count(doc, KeyError) = 1
    /\ Get(doc, KeyError).t = "obj" /\ HasBadCode(Get(doc, KeyError))
    /\ IsDetailObject(doc)
    /\ IsApiError /\ result.api.message = <<77>>
    /\ result.api.code = SomeStr(<<52, 50, 57>>)

---------------------------------------------------------------------------
(* Sanity of the bodies: reading a written document gives it back.         *)

EncodeRoundTrip ==
    doc # NoDoc => (ReadDocument(bytes).ok /\ ReadDocument(bytes).v = doc)

=============================================================================
